---- MODULE Spec2Model ----
(***************************************************************************)
(* Model of libinterval/ncollections/optional.rs: Optional<T>, a set of    *)
(* zero or one element of T, and its set-algebra operations.               *)
(*                                                                         *)
(* Two element types are modelled: "i32" (Eq + Ord, and the scalar set     *)
(* protocol of ncollections::ops) and "f64" (PartialEq + Clone only, with  *)
(* a NaN that is unequal to itself).  An element is a record               *)
(* [nan, num]; an Option<T> is the sequence <<>> (None) or <<x>> (Some(x)).*)
(***************************************************************************)
EXTENDS Integers, Sequences, FiniteSets

\* Largest number used as an element or as a bound.
MaxNum == 2

VARIABLES T, debug, a, b, k, op, rset, rbool, rbound, rsize, panic

vars == <<T, debug, a, b, k, op, rset, rbool, rbound, rsize, panic>>

----------------------------------------------------------------------------
\* Element types

Num(n) == [nan |-> FALSE, num |-> n]

NaN == [nan |-> TRUE, num |-> 0]

Types == {"i32", "f64"}

Values(ty) ==
  IF ty = "i32" THEN {Num(n) : n \in 0..MaxNum}
  ELSE {Num(n) : n \in 0..MaxNum} \cup {NaN}

\* T: PartialEq -- integer equality, IEEE equality for f64 (NaN != NaN).
T_eq(x, y) == ~x.nan /\ ~y.nan /\ x.num = y.num

\* The scalar instances of the set protocol (ncollections::ops).
T_lower(x) == x

T_upper(x) == x

T_is_disjoint(x, y) == ~T_eq(x, y)

T_overlap(x, y) == T_eq(x, y)

T_is_subset(x, y) == T_eq(x, y)

T_contains(x, v) == T_eq(x, v)

----------------------------------------------------------------------------
\* Option<T>

None == <<>>

Some(x) == <<x>>

is_some(o) == Len(o) = 1

unwrap(o) == o[1]

Options(ty) == {None} \cup {Some(x) : x \in Values(ty)}

----------------------------------------------------------------------------
\* Optional<T>

wrap(value) == [value |-> value]

deref(self) == self.value

\* #[derive(PartialEq)]: the Option fields are compared, elements by T's ==.
eq(self, other) ==
  \/ deref(self) = None /\ deref(other) = None
  \/ /\ is_some(deref(self))
     /\ is_some(deref(other))
     /\ T_eq(unwrap(deref(self)), unwrap(deref(other)))

ne(self, other) == ~eq(self, other)

clone(self) == [value |-> deref(self)]

\* Bug: is_none taken for is_some.
size_is_none(self) == IF is_some(deref(self)) THEN 0 ELSE 1

size(self) == IF is_some(deref(self)) THEN 1 ELSE 0

\* Cardinality's derived predicates.
is_empty(self) == size(self) = 0

is_singleton(self) == size(self) = 1

singleton(value) == wrap(Some(value))

empty == wrap(None)

\* A call either panics (panic # "") or returns a bound (Some(bound)).
Panicked(msg) == [panic |-> msg, bound |-> None]

Returned(bound) == [panic |-> "", bound |-> Some(bound)]

\* Bug: the emptiness check is left to the debug assertion alone, and the
\* release build reads a default value out of the empty slot.
lower_unwrap_or_default(self, dbg) ==
  IF dbg /\ is_empty(self)
  THEN Panicked("debug_assert: cannot access lower bound on empty Option")
  ELSE Returned(T_lower(IF deref(self) = None THEN Num(0) ELSE unwrap(deref(self))))

lower(self, dbg) ==
  IF dbg /\ ~(~is_empty(self))
  THEN Panicked("debug_assert: cannot access lower bound on empty Option")
  ELSE IF deref(self) = None
       THEN Panicked("unwrap on None")
       ELSE Returned(T_lower(unwrap(deref(self))))

upper(self, dbg) ==
  IF dbg /\ ~(~is_empty(self))
  THEN Panicked("debug_assert: cannot access upper bound on empty Option")
  ELSE IF deref(self) = None
       THEN Panicked("unwrap on None")
       ELSE Returned(T_upper(unwrap(deref(self))))

\* Bug: the inequality test is forgotten.
intersection_no_ne(self, other) ==
  IF is_empty(self) \/ is_empty(other)
  THEN empty
  ELSE clone(self)

\* Bug: == written for !=.
intersection_eq_for_ne(self, other) ==
  IF is_empty(self) \/ is_empty(other) \/ eq(self, other)
  THEN empty
  ELSE clone(self)

intersection(self, other) ==
  IF is_empty(self) \/ is_empty(other) \/ ne(self, other)
  THEN empty
  ELSE clone(self)

\* Bug: the equality test is forgotten.
difference_no_eq(self, other) ==
  IF is_empty(self)
  THEN empty
  ELSE clone(self)

\* Bug: an empty right operand empties the result, as it does for intersection.
difference_other_empty(self, other) ==
  IF is_empty(self) \/ is_empty(other) \/ eq(self, other)
  THEN empty
  ELSE clone(self)

difference(self, other) ==
  IF is_empty(self) \/ eq(self, other)
  THEN empty
  ELSE clone(self)

is_disjoint(self, other) ==
  \/ is_empty(self)
  \/ is_empty(other)
  \/ T_is_disjoint(unwrap(deref(self)), unwrap(deref(other)))

contains(self, value) ==
  IF is_some(deref(self)) THEN T_contains(unwrap(deref(self)), value) ELSE FALSE

\* Bug: the two emptiness tests are made in the wrong order.
is_subset_other_first(self, other) ==
  IF is_empty(other) THEN FALSE
  ELSE IF is_empty(self) THEN TRUE
  ELSE T_is_subset(unwrap(deref(self)), unwrap(deref(other)))

is_subset(self, other) ==
  IF is_empty(self) THEN TRUE
  ELSE IF is_empty(other) THEN FALSE
  ELSE T_is_subset(unwrap(deref(self)), unwrap(deref(other)))

\* Bug: the inequality test is forgotten.
is_proper_subset_no_ne(self, other) == is_subset(self, other)

is_proper_subset(self, other) == is_subset(self, other) /\ ne(self, other)

\* Bug: overlap taken for equality of the whole sets.
overlap_as_eq(self, other) == eq(self, other)

overlap(self, other) ==
  IF is_empty(self) \/ is_empty(other) THEN FALSE
  ELSE T_overlap(unwrap(deref(self)), unwrap(deref(other)))

\* The values of an element type with a total order (T: Ord).
Ord == Values("i32")

\* cond is the closure, a function of the two values it is applied to.
shrink_if(value, bound, cond) ==
  IF is_some(value.value) /\ cond[unwrap(value.value), bound]
  THEN singleton(unwrap(value.value))
  ELSE empty

shrink_left(self, lb) == shrink_if(self, lb, [x \in Ord, y \in Ord |-> x.num >= y.num])

shrink_right(self, ub) == shrink_if(self, ub, [x \in Ord, y \in Ord |-> x.num <= y.num])

\* Bug: the strict comparison written as >=.
strict_shrink_left_ge(self, lb) == shrink_if(self, lb, [x \in Ord, y \in Ord |-> x.num >= y.num])

strict_shrink_left(self, lb) == shrink_if(self, lb, [x \in Ord, y \in Ord |-> x.num > y.num])

strict_shrink_right(self, ub) == shrink_if(self, ub, [x \in Ord, y \in Ord |-> x.num < y.num])

----------------------------------------------------------------------------
\* Trait bounds: which element types an operation is implemented for.

HasOrd(ty) == ty = "i32"

HasSetOps(ty) == ty = "i32"

----------------------------------------------------------------------------
\* State machine: two set variables a (self) and b (other) of a program
\* instantiated at element type T, built with or without debug assertions.

Init ==
  /\ T \in Types
  /\ debug \in BOOLEAN
  /\ a = empty
  /\ b = empty
  /\ k = Num(0)
  /\ op = "init"
  /\ rset = empty
  /\ rbool = FALSE
  /\ rbound = None
  /\ rsize = 0
  /\ panic = ""

NoResult ==
  /\ rset' = empty
  /\ rbool' = FALSE
  /\ rbound' = None
  /\ rsize' = 0

Store(slot, s) ==
  /\ a' = IF slot = "a" THEN s ELSE a
  /\ b' = IF slot = "b" THEN s ELSE b

Construct(name, slot, s) ==
  /\ Store(slot, s)
  /\ op' = name
  /\ NoResult
  /\ UNCHANGED <<T, debug, k, panic>>

SetOp(name, s) ==
  /\ op' = name
  /\ rset' = s
  /\ rbool' = FALSE
  /\ rbound' = None
  /\ rsize' = 0
  /\ UNCHANGED <<T, debug, a, b, k, panic>>

BoolOp(name, r) ==
  /\ op' = name
  /\ rbool' = r
  /\ rset' = empty
  /\ rbound' = None
  /\ rsize' = 0
  /\ UNCHANGED <<T, debug, a, b, panic>>

\* The call returns its bound, or panics: a panic ends the run.
BoundOp(name, r) ==
  /\ op' = name
  /\ rbound' = r.bound
  /\ panic' = r.panic
  /\ rset' = empty
  /\ rbool' = FALSE
  /\ rsize' = 0
  /\ UNCHANGED <<T, debug, a, b, k>>

ShrinkOp(name, lim, s) ==
  /\ op' = name
  /\ k' = lim
  /\ rset' = s
  /\ rbool' = FALSE
  /\ rbound' = None
  /\ rsize' = 0
  /\ UNCHANGED <<T, debug, a, b, panic>>

Empty ==
  /\ panic = ""
  /\ \E slot \in {"a", "b"} : Construct("empty", slot, empty)

Singleton ==
  /\ panic = ""
  /\ \E slot \in {"a", "b"} : \E v \in Values(T) :
       Construct("singleton", slot, singleton(v))

Wrap ==
  /\ panic = ""
  /\ \E slot \in {"a", "b"} : \E raw \in Options(T) :
       Construct("wrap", slot, wrap(raw))

\* *set = raw: the slot is replaced in place through deref_mut.
DerefMut ==
  /\ panic = ""
  /\ \E slot \in {"a", "b"} : \E raw \in Options(T) :
       Construct("deref_mut", slot,
                 [(IF slot = "a" THEN a ELSE b) EXCEPT !.value = raw])

\* The set returned by the last operation is kept in a or b.
Assign ==
  /\ panic = ""
  /\ op \in {"intersection", "difference", "shrink_left", "shrink_right",
             "strict_shrink_left", "strict_shrink_right"}
  /\ \E slot \in {"a", "b"} : Construct("assign", slot, rset)

Size ==
  /\ panic = ""
  /\ op' = "size"
  /\ rsize' = size(a)
  /\ rset' = empty
  /\ rbool' = FALSE
  /\ rbound' = None
  /\ UNCHANGED <<T, debug, a, b, k, panic>>

Lower ==
  /\ panic = ""
  /\ HasSetOps(T)
  /\ BoundOp("lower", lower(a, debug))

Upper ==
  /\ panic = ""
  /\ HasSetOps(T)
  /\ BoundOp("upper", upper(a, debug))

Intersection ==
  /\ panic = ""
  /\ SetOp("intersection", intersection(a, b))

Difference ==
  /\ panic = ""
  /\ SetOp("difference", difference(a, b))

IsDisjoint ==
  /\ panic = ""
  /\ HasSetOps(T)
  /\ BoolOp("is_disjoint", is_disjoint(a, b))
  /\ UNCHANGED k

Contains ==
  /\ panic = ""
  /\ HasSetOps(T)
  /\ \E v \in Values(T) : BoolOp("contains", contains(a, v)) /\ k' = v

IsSubset ==
  /\ panic = ""
  /\ HasSetOps(T)
  /\ BoolOp("is_subset", is_subset(a, b))
  /\ UNCHANGED k

IsProperSubset ==
  /\ panic = ""
  /\ HasSetOps(T)
  /\ BoolOp("is_proper_subset", is_proper_subset(a, b))
  /\ UNCHANGED k

Overlap ==
  /\ panic = ""
  /\ HasSetOps(T)
  /\ BoolOp("overlap", overlap(a, b))
  /\ UNCHANGED k

ShrinkLeft ==
  /\ panic = ""
  /\ HasOrd(T)
  /\ \E lb \in Values(T) : ShrinkOp("shrink_left", lb, shrink_left(a, lb))

ShrinkRight ==
  /\ panic = ""
  /\ HasOrd(T)
  /\ \E ub \in Values(T) : ShrinkOp("shrink_right", ub, shrink_right(a, ub))

StrictShrinkLeft ==
  /\ panic = ""
  /\ HasOrd(T)
  /\ \E lb \in Values(T) :
       ShrinkOp("strict_shrink_left", lb, strict_shrink_left(a, lb))

StrictShrinkRight ==
  /\ panic = ""
  /\ HasOrd(T)
  /\ \E ub \in Values(T) :
       ShrinkOp("strict_shrink_right", ub, strict_shrink_right(a, ub))

Next ==
  \/ Empty
  \/ Singleton
  \/ Wrap
  \/ DerefMut
  \/ Assign
  \/ Size
  \/ Lower
  \/ Upper
  \/ Intersection
  \/ Difference
  \/ IsDisjoint
  \/ Contains
  \/ IsSubset
  \/ IsProperSubset
  \/ Overlap
  \/ ShrinkLeft
  \/ ShrinkRight
  \/ StrictShrinkLeft
  \/ StrictShrinkRight

Spec == Init /\ [][Next]_vars

----------------------------------------------------------------------------
\* Properties

\* The element type's equality is reflexive (Eq): every value equals itself.
ReflexiveEq(ty) == \A v \in Values(ty) : T_eq(v, v)

NonEmpty(s) == s.value # <<>>

IsEmpty(s) == s.value = <<>>

Elem(s) == s.value[1]

\* C1: a.intersection(b) is empty if a is empty, or b is empty, or a and b are
\* unequal as whole values; otherwise the result equals a, and so equals b.
C1_IntersectionContract ==
  op = "intersection" =>
    IF IsEmpty(a) \/ IsEmpty(b) \/ ~eq(a, b)
    THEN IsEmpty(rset)
    ELSE rset = a /\ eq(rset, a) /\ eq(rset, b)

C1_Witness ==
  /\ op = "intersection"
  /\ NonEmpty(a)
  /\ eq(a, b)
  /\ rset = a

\* C2 as stated, for every element type with == : a.difference(b) is empty if a
\* is empty or a equals b, otherwise it is a; difference(a, empty) = a for
\* non-empty a; difference(a, a) = empty for every a; difference(empty, b) is
\* empty.
C2_DifferenceContract_Stated ==
  op = "difference" =>
    /\ IF IsEmpty(a) \/ eq(a, b) THEN IsEmpty(rset) ELSE rset = a
    /\ (NonEmpty(a) /\ IsEmpty(b)) => rset = a
    /\ b = a => IsEmpty(rset)
    /\ IsEmpty(a) => IsEmpty(rset)

\* C2 amended: the same, over an element type whose equality is reflexive.
C2_DifferenceContract ==
  ReflexiveEq(T) => C2_DifferenceContract_Stated

C2_Witness ==
  /\ ReflexiveEq(T)
  /\ op = "difference"
  /\ NonEmpty(a)
  /\ b = a
  /\ IsEmpty(rset)

\* C3: lower() and upper() on an empty set panic and return no bound, in every
\* build; and nothing else panics.
C3_BoundsPanicOnEmpty ==
  /\ (op \in {"lower", "upper"} /\ IsEmpty(a)) => (panic # "" /\ rbound = <<>>)
  /\ panic # "" => (op \in {"lower", "upper"} /\ IsEmpty(a))
  /\ (op \in {"lower", "upper"} /\ NonEmpty(a)) => rbound = <<Elem(a)>>

C3_Witness ==
  /\ op = "lower"
  /\ IsEmpty(a)
  /\ ~debug
  /\ panic # ""

\* C4: with an empty operand is_disjoint is true and overlap is false; with two
\* non-empty operands each returns the element type's own answer on the two
\* values.  For scalars (disjoint iff unequal) is_disjoint is the negation of
\* overlap on every pair, and both are symmetric.
C4_DisjointOverlap ==
  /\ op = "is_disjoint" =>
       rbool = (IF IsEmpty(a) \/ IsEmpty(b) THEN TRUE
                ELSE T_is_disjoint(Elem(a), Elem(b)))
  /\ op = "overlap" =>
       rbool = (IF IsEmpty(a) \/ IsEmpty(b) THEN FALSE
                ELSE T_overlap(Elem(a), Elem(b)))
  /\ HasSetOps(T) =>
       /\ is_disjoint(a, b) = ~overlap(a, b)
       /\ is_disjoint(a, b) = is_disjoint(b, a)
       /\ overlap(a, b) = overlap(b, a)
       /\ (NonEmpty(a) /\ NonEmpty(b)) => (overlap(a, b) <=> Elem(a).num = Elem(b).num)

C4_Witness ==
  /\ op = "overlap"
  /\ NonEmpty(a)
  /\ NonEmpty(b)
  /\ rbool
  /\ ~is_disjoint(a, b)

\* C5: is_subset(a, b) is true when a is empty, false when a is non-empty and b
\* is empty, and otherwise the element type's subset test (for scalars: the two
\* values are equal).
C5_Subset ==
  op = "is_subset" =>
    /\ IsEmpty(a) => rbool
    /\ (NonEmpty(a) /\ IsEmpty(b)) => ~rbool
    /\ (NonEmpty(a) /\ NonEmpty(b)) =>
         /\ rbool = T_is_subset(Elem(a), Elem(b))
         /\ rbool = (Elem(a).num = Elem(b).num)

C5_Witness ==
  /\ op = "is_subset"
  /\ IsEmpty(a)
  /\ IsEmpty(b)
  /\ rbool

\* C6: is_proper_subset(a, b) iff is_subset(a, b) and a, b are not equal; it is
\* false on (a, a), never true both ways, and for scalars it holds exactly when
\* a is empty and b is not.
C6_ProperSubset ==
  /\ op = "is_proper_subset" =>
       /\ rbool = (is_subset(a, b) /\ ~eq(a, b))
       /\ b = a => ~rbool
       /\ rbool = (IsEmpty(a) /\ NonEmpty(b))
  /\ HasSetOps(T) => ~(is_proper_subset(a, b) /\ is_proper_subset(b, a))

C6_Witness ==
  /\ op = "is_proper_subset"
  /\ IsEmpty(a)
  /\ NonEmpty(b)
  /\ rbool

\* The set a clipped by a comparison that holds (keep) or not.
Kept(keep) == IF NonEmpty(a) /\ keep THEN a ELSE empty

\* C7: each shrink maps the empty set to the empty set and {v} to {v} if its
\* comparison with the bound k holds (>=, <=, >, <), to the empty set otherwise.
C7_Shrink ==
  /\ op = "shrink_left" => rset = Kept(NonEmpty(a) /\ Elem(a).num >= k.num)
  /\ op = "shrink_right" => rset = Kept(NonEmpty(a) /\ Elem(a).num <= k.num)
  /\ op = "strict_shrink_left" => rset = Kept(NonEmpty(a) /\ Elem(a).num > k.num)
  /\ op = "strict_shrink_right" => rset = Kept(NonEmpty(a) /\ Elem(a).num < k.num)
  /\ op \in {"shrink_left", "shrink_right", "strict_shrink_left",
             "strict_shrink_right"} => (IsEmpty(rset) \/ rset = a)

C7_Witness ==
  /\ op = "strict_shrink_left"
  /\ NonEmpty(a)
  /\ Elem(a) = k
  /\ IsEmpty(rset)

\* C8: a.intersection(b) == b.intersection(a).
C8_IntersectionSymmetric ==
  op = "intersection" => eq(rset, intersection(b, a))

C8_Witness ==
  /\ op = "intersection"
  /\ NonEmpty(a)
  /\ NonEmpty(b)
  /\ a # b
  /\ IsEmpty(rset)

\* C9: every reachable set holds 0 or 1 element, size() is 1 iff the slot holds
\* a value and 0 otherwise, and is_empty is the complement of is_singleton.
C9_Cardinality ==
  /\ \A s \in {a, b, rset} :
       /\ Len(s.value) \in {0, 1}
       /\ size(s) = Len(s.value)
       /\ size(s) = 1 <=> NonEmpty(s)
       /\ size(s) = 0 <=> IsEmpty(s)
       /\ is_empty(s) <=> ~is_singleton(s)
  /\ op = "size" => rsize = (IF NonEmpty(a) THEN 1 ELSE 0)

C9_Witness ==
  /\ op = "size"
  /\ rsize = 1
  /\ IsEmpty(b)

\* C10: over an element type with reflexive equality, if a is non-empty exactly
\* one of a.intersection(b), a.difference(b) equals a and the other is empty; if
\* a is empty both are empty; the difference is empty iff a is empty or the
\* intersection equals a; and the two are disjoint.
C10_Partition ==
  ReflexiveEq(T) =>
    LET i == intersection(a, b)
        d == difference(a, b)
    IN /\ NonEmpty(a) => \/ eq(i, a) /\ IsEmpty(d) /\ ~eq(d, a)
                         \/ eq(d, a) /\ IsEmpty(i) /\ ~eq(i, a)
       /\ IsEmpty(a) => IsEmpty(i) /\ IsEmpty(d)
       /\ IsEmpty(d) <=> (IsEmpty(a) \/ eq(i, a))
       /\ HasSetOps(T) => is_disjoint(i, d)
       /\ op = "intersection" => rset = i
       /\ op = "difference" => rset = d

C10_Witness ==
  /\ ReflexiveEq(T)
  /\ op = "difference"
  /\ NonEmpty(a)
  /\ NonEmpty(b)
  /\ rset = a
  /\ IsEmpty(intersection(a, b))

====
